---- MODULE Spec2Model ----
(***************************************************************************)
(* Model of migrate_database.py: the migration execution engine.           *)
(*                                                                         *)
(* Several engine instances (operating-system processes running main())    *)
(* share one mongo database and one script directory.  Every access to the *)
(* database is one atomic step of the instance that makes it; what an      *)
(* instance does between two accesses is local and is folded into the      *)
(* step of the next access.                                                *)
(*                                                                         *)
(* A filename "NNNN_x.js" is the sequence of its four digits followed by   *)
(* the code of its name x (10 for "a", 11 for "b"), so that sorted() is    *)
(* the lexicographic order of sequences and int(filename[:4]) is computed  *)
(* from the digits.  A message is a sequence of text pieces.  The dates    *)
(* the code stores (script_execution_date, the value of migration_lock)    *)
(* are never read back by it and are left out of the documents.            *)
(***************************************************************************)
EXTENDS Naturals, Integers, Sequences, FiniteSets, TLC

\* ------------------------------------------------------------------ bounds
MaxRuns == 2
MaxEdits == 1
MaxLen == 3
MaxNumber == 2

Procs == {1, 2}

\* ------------------------------------------------------- program constants
MIGRATION_STATUS_OK == "OK"
MIGRATION_STATUS_FAILED == "FAILED"

\* ----------------------------------------------------------------- inputs
Names == {10, 11}
Contents == {"content1", "content2"}

\* the content the script files are first written with
InitialContent(f) == IF f[5] = 10 THEN "content1" ELSE "content2"

Digits4(n) == << (n \div 1000) % 10, (n \div 100) % 10, (n \div 10) % 10, n % 10 >>

\* the file "NNNN_x.js" with number n and name x
File(n, x) == Digits4(n) \o << x >>

\* the directories the engine is run in: what
\* glob.glob('./[0-9][0-9][0-9][0-9]_*.js') finds there.  No script, one
\* script, two scripts, a duplicate number, no number 0, a gap.
FileSets ==
  { {},
    { File(0, 10) },
    { File(0, 10), File(1, 11) },
    { File(0, 10), File(0, 11) },
    { File(1, 11) },
    { File(0, 10), File(2, 10) } }

\* what mongo_db().eval(script_content) can do
EvalOutcomes == {"ok", "error", "opfail", "other"}
JsError == << "js error" >>
DriverMessage == << "command SON(", "throw ...", ") failed: ", "invoke failed: JS Error" >>

\* errno of the OSError os.makedirs can raise (0: the directory is created)
MakedirsErrnos == {0, 17}
\* exit code of the mongodump subprocess run by os.system
DumpExitCodes == {0, 1}

\* glob.glob: the files of the directory, in any order
Glob(S) ==
  { s \in [1..Cardinality(S) -> S] : \A i, j \in 1..Cardinality(S) : i # j => s[i] # s[j] }

\* ---------------------------------------------------------- pure functions
NoFile == << >>
NoMessage == << >>

Doc(lock, filename, error_message, status, sha_hash) ==
  [migration_lock |-> lock, filename |-> filename, error_message |-> error_message,
   status |-> status, sha_hash |-> sha_hash]

LockDoc == Doc(TRUE, NoFile, NoMessage, "", "")
NoneDoc == Doc(FALSE, NoFile, NoMessage, "", "")

\* hashlib.sha1(content).hexdigest()
Sha1(content) ==
  CASE content = "" -> "da39a3ee5e6b4b0d3255bfef95601890afd80709"
    [] content = "content1" -> "105e7a844ac896f68e6f7dc0a9389d3e9be95abc"
    [] content = "content2" -> "6dc99d4757bcb35eaaf4cd3cb7907189fab8d254"
    [] OTHER -> "32c5ff3108bcea43b1c4826d66f43a3ae570e663"

\* re.sub(r'command SON\(.*\) failed: ', '', message): the greedy match runs
\* from the first "command SON(" that has a ") failed: " after it to the
\* last ") failed: " of the message
RemoveScriptFromExceptionMessage(message) ==
  LET starts == { i \in 1..Len(message) :
                    /\ message[i] = "command SON("
                    /\ \E j \in (i+1)..Len(message) : message[j] = ") failed: " }
  IN IF starts = {} THEN message
     ELSE LET i == CHOOSE x \in starts : \A y \in starts : x <= y
              ends == { j \in (i+1)..Len(message) : message[j] = ") failed: " }
              j == CHOOSE x \in ends : \A y \in ends : y <= x
          IN SubSeq(message, 1, i-1) \o SubSeq(message, j+1, Len(message))

\* int(filename[:4])
ExtractFilenumber(filename) ==
  filename[1] * 1000 + filename[2] * 100 + filename[3] * 10 + filename[4]

\* string comparison a < b
RECURSIVE StrLess(_, _)
StrLess(a, b) ==
  IF b = << >> THEN FALSE
  ELSE IF a = << >> THEN TRUE
  ELSE IF Head(a) # Head(b) THEN Head(a) < Head(b)
  ELSE StrLess(Tail(a), Tail(b))

\* sorted(filenames): the list in ascending string order
RECURSIVE SortedInsert(_, _)
SortedInsert(x, s) ==
  IF s = << >> THEN << x >>
  ELSE IF StrLess(x, Head(s)) THEN << x >> \o s
  ELSE << Head(s) >> \o SortedInsert(x, Tail(s))

RECURSIVE Sorted(_)
Sorted(filenames) ==
  IF filenames = << >> THEN << >>
  ELSE SortedInsert(filenames[Len(filenames)],
                    Sorted(SubSeq(filenames, 1, Len(filenames) - 1)))

\* check_consecutive without sorted()
CheckConsecutiveUnsorted(filenames) ==
  \A i \in 1..Len(filenames) : ExtractFilenumber(filenames[i]) = i - 1

\* [extract_filenumber(f) for f in sorted(filenames)] == range(0, len(filenames))
CheckConsecutive(filenames) ==
  LET s == Sorted(filenames)
  IN \A i \in 1..Len(s) : ExtractFilenumber(s[i]) = i - 1

\* Migration(filename, document, script_content)
Migration(filename, document, script_content) ==
  [filename |-> filename, document |-> document, script_content |-> script_content]

\* Migration.was_already_applied comparing with the wrong status
WasAlreadyAppliedWrongStatus(m) ==
  IF m.document # NoneDoc THEN m.document.status = MIGRATION_STATUS_FAILED ELSE FALSE

\* Migration.was_already_applied
WasAlreadyApplied(m) ==
  IF m.document # NoneDoc THEN m.document.status = MIGRATION_STATUS_OK ELSE FALSE

\* Migration.inconsistent_hashcode comparing the hashes of applied
\* migrations only
InconsistentHashcodeOfAppliedOnly(m) ==
  IF m.document # NoneDoc /\ m.document.status = MIGRATION_STATUS_OK
    THEN Sha1(m.script_content) # m.document.sha_hash ELSE FALSE

\* Migration.inconsistent_hashcode taking equal hashes for inconsistent
InconsistentHashcodeInverted(m) ==
  IF m.document # NoneDoc THEN Sha1(m.script_content) = m.document.sha_hash ELSE FALSE

\* Migration.inconsistent_hashcode
InconsistentHashcode(m) ==
  IF m.document # NoneDoc THEN Sha1(m.script_content) # m.document.sha_hash ELSE FALSE

\* the queries of the code, and the places in the collection of the
\* documents a find_one with the query can return
IsLock(d) == d.migration_lock
IsFailed(d) == (~d.migration_lock) /\ d.status = MIGRATION_STATUS_FAILED
HasFilename(d, f) == (~d.migration_lock) /\ d.filename = f

FindLock(coll) == { i \in 1..Len(coll) : IsLock(coll[i]) }
FindFailed(coll) == { i \in 1..Len(coll) : IsFailed(coll[i]) }
FindFilename(coll, f) == { i \in 1..Len(coll) : HasFilename(coll[i], f) }

\* os.system: the wait status of the subprocess, its exit code in the high byte
WaitStatus(exitcode) == exitcode * 256

\* the status the operating system sees for exit(code)
ExitStatus(code) == code % 256

NoExc == [kind |-> "none", code |-> 0]
ExitMessage(code) == [kind |-> "ExitMessage", code |-> code]
Uncaught == [kind |-> "uncaught", code |-> 1]

\* main: exit(exit_message.code) for an ExitMessage, exit(0) after process()
\* returns; any other exception ends the interpreter with status 1
MainExit(exc) ==
  IF exc.kind = "uncaught" THEN 1 ELSE ExitStatus(exc.code)

Ev(op, filename, content, result, msg) ==
  [op |-> op, filename |-> filename, content |-> content, result |-> result, msg |-> msg]

\* ------------------------------------------------------------------ state
VARIABLES
  files,                 \* the script files of the working directory
  disk,                  \* the content of each script file
  migrations,            \* the collection db.migrations, in insertion order
  indexes,               \* the indexes of db.migrations
  notablescan,           \* the server parameter "notablescan"
  evals,                 \* how often db.eval ran each script, over all instances
  pc,                    \* where each instance is in main()
  disable_backup,        \* command_line_options.disable_backup
  was,                   \* result[u'was'] of enable_tablescans
  filenames_left,        \* get_migrations_to_execute: the filenames still to load
  migrations_to_execute, \* the list get_migrations_to_execute builds
  pos,                   \* process_migrations: the position of the loop
  outcome,               \* the status and message save_migration_state is called with
  exc,                   \* the exception that is propagating, if any
  exit_status,           \* the exit status of the instance's last run
  trace,                 \* what the instance's current run has done so far
  runs,                  \* the number of runs started
  edits,                 \* the number of edits of script files
  overlapped,            \* two runs have overlapped in time
  full_success,          \* a run has completed successfully, no script edited since
  after_success,         \* the instance's run started when full_success held
  call,                  \* a function called on its own, with its arguments
  ret                    \* what the call returned

vars == << files, disk, migrations, indexes, notablescan, evals, pc, disable_backup,
           was, filenames_left, migrations_to_execute, pos, outcome, exc, exit_status,
           trace, runs, edits, overlapped, full_success, after_success, call, ret >>

shared == << files, disk, migrations, indexes, notablescan, evals >>
history == << runs, edits, overlapped, full_success, after_success >>
alone == << call, ret >>

NoOutcome == [status |-> "", error_message |-> NoMessage]

\* no function is called on its own
NoCall == [fn |-> "", filenames |-> << >>, migration |-> Migration(NoFile, NoneDoc, "")]
NoRet == [returned |-> FALSE, value |-> FALSE, applied |-> FALSE, inconsistent |-> FALSE,
          migration |-> Migration(NoFile, NoneDoc, "")]

\* the instances before their first run
InitInstances ==
  /\ pc = [p \in Procs |-> "idle"]
  /\ disable_backup = [p \in Procs |-> FALSE]
  /\ was = [p \in Procs |-> 0]
  /\ filenames_left = [p \in Procs |-> << >>]
  /\ migrations_to_execute = [p \in Procs |-> << >>]
  /\ pos = [p \in Procs |-> 1]
  /\ outcome = [p \in Procs |-> NoOutcome]
  /\ exc = [p \in Procs |-> NoExc]
  /\ exit_status = [p \in Procs |-> 0]
  /\ trace = [p \in Procs |-> << >>]
  /\ runs = 0
  /\ edits = 0
  /\ overlapped = FALSE
  /\ full_success = FALSE
  /\ after_success = [p \in Procs |-> FALSE]

Init ==
  /\ files \in FileSets
  /\ disk = [f \in files |-> InitialContent(f)]
  /\ migrations = << >>
  /\ indexes = {}
  /\ notablescan = 1
  /\ evals = [f \in files |-> 0]
  /\ InitInstances
  /\ call = NoCall
  /\ ret = NoRet

Running(p) == pc[p] \notin {"idle", "done"}

Log(p, e) == trace' = [trace EXCEPT ![p] = Append(@, e)]

\* main: the run ends; the exception, if any, decides the exit status
Exit(p, e) ==
  /\ pc' = [pc EXCEPT ![p] = "done"]
  /\ exc' = [exc EXCEPT ![p] = e]
  /\ exit_status' = [exit_status EXCEPT ![p] = MainExit(e)]

\* an exception starts to propagate (or the block ends) at the place `to`
Goto(p, to, e) ==
  /\ pc' = [pc EXCEPT ![p] = to]
  /\ exc' = [exc EXCEPT ![p] = e]
  /\ UNCHANGED exit_status

\* ---------------------------------------------------------------- actions
\* main, process up to the backup: a new run of instance p starts.  The
\* instances are alike, so the one with the higher number is started only
\* after the lower one has run; what is kept of the runs that have ended
\* (exit status, trace) is dropped when the next run starts.
Start(p) ==
  /\ ~Running(p)
  /\ runs < MaxRuns
  /\ \A q \in Procs : q < p => pc[q] # "idle"
  /\ runs' = runs + 1
  /\ \E flag \in BOOLEAN :
       /\ disable_backup' = [disable_backup EXCEPT ![p] = flag]
       /\ pc' = [pc EXCEPT ![p] = IF flag THEN "init" ELSE "backup"]
  /\ exc' = [q \in Procs |-> IF Running(q) THEN exc[q] ELSE NoExc]
  /\ exit_status' = [q \in Procs |-> IF Running(q) THEN exit_status[q] ELSE 0]
  /\ trace' = [q \in Procs |-> IF Running(q) THEN trace[q] ELSE << >>]
  /\ filenames_left' = [filenames_left EXCEPT ![p] = << >>]
  /\ migrations_to_execute' = [migrations_to_execute EXCEPT ![p] = << >>]
  /\ pos' = [pos EXCEPT ![p] = 1]
  /\ outcome' = [outcome EXCEPT ![p] = NoOutcome]
  /\ overlapped' = (overlapped \/ \E q \in Procs \ {p} : Running(q))
  /\ after_success' = [after_success EXCEPT ![p] = full_success]
  /\ UNCHANGED << alone, shared, was, edits, full_success >>

\* what happened to the backup: os.makedirs raised, or mongodump ended with
\* the exit code c
BackupResult(e, c) ==
  IF e # 0 THEN "makedirs failed" ELSE IF c # 0 THEN "mongodump failed" ELSE "ok"

\* backup_database without the test of os.system's result
BackupDatabaseUnchecked(p) ==
  /\ pc[p] = "backup"
  /\ \E e \in MakedirsErrnos, c \in DumpExitCodes :
       /\ Log(p, Ev("backup", NoFile, "", BackupResult(e, c), NoMessage))
       /\ IF e # 0 THEN Exit(p, ExitMessage(e)) ELSE Goto(p, "init", NoExc)
  /\ UNCHANGED << alone, shared, history, disable_backup, was, filenames_left,
                  migrations_to_execute, pos, outcome >>

\* backup_database
BackupDatabase(p) ==
  /\ pc[p] = "backup"
  /\ \E e \in MakedirsErrnos, c \in DumpExitCodes :
       LET errno == WaitStatus(c) IN
       /\ Log(p, Ev("backup", NoFile, "", BackupResult(e, c), NoMessage))
       /\ IF e # 0 THEN Exit(p, ExitMessage(e))
          ELSE IF errno # 0 THEN Exit(p, ExitMessage(errno))
          ELSE Goto(p, "init", NoExc)
  /\ UNCHANGED << alone, shared, history, disable_backup, was, filenames_left,
                  migrations_to_execute, pos, outcome >>

\* init_migrations_collection
InitMigrationsCollection(p) ==
  /\ pc[p] = "init"
  /\ indexes' = indexes \cup {"filename", "status", "migration_lock"}
  /\ Goto(p, "check_lock", NoExc)
  /\ Log(p, Ev("create_index", NoFile, "", "", NoMessage))
  /\ UNCHANGED << alone, files, disk, migrations, notablescan, evals, history, disable_backup,
                  was, filenames_left, migrations_to_execute, pos, outcome >>

\* already_locked
AlreadyLocked == FindLock(migrations) # {}

\* migration_lock raising inside the try block, so that its finally runs
CheckLockRaisingInTry(p) ==
  /\ pc[p] = "check_lock"
  /\ IF ~AlreadyLocked
       THEN Goto(p, "insert_lock", NoExc) /\ UNCHANGED trace
       ELSE Goto(p, "release", ExitMessage(1))
            /\ Log(p, Ev("already_locked", NoFile, "", "", NoMessage))
  /\ UNCHANGED << alone, shared, history, disable_backup, was, filenames_left,
                  migrations_to_execute, pos, outcome >>

\* migration_lock, the test of already_locked() and its else branch
CheckLock(p) ==
  /\ pc[p] = "check_lock"
  /\ IF ~AlreadyLocked
       THEN Goto(p, "insert_lock", NoExc) /\ UNCHANGED trace
       ELSE Exit(p, ExitMessage(1))
            /\ Log(p, Ev("already_locked", NoFile, "", "", NoMessage))
  /\ UNCHANGED << alone, shared, history, disable_backup, was, filenames_left,
                  migrations_to_execute, pos, outcome >>

\* migration_lock, the insert of the lock document
InsertLock(p) ==
  /\ pc[p] = "insert_lock"
  /\ migrations' = Append(migrations, LockDoc)
  /\ Goto(p, "enable_ts", NoExc)
  /\ Log(p, Ev("lock", NoFile, "", "", NoMessage))
  /\ UNCHANGED << alone, files, disk, indexes, notablescan, evals, history, disable_backup,
                  was, filenames_left, migrations_to_execute, pos, outcome >>

\* enable_tablescans, the setParameter command before the try block.  The
\* command is taken to succeed, as the find_one, insert and remove calls
\* are; the ExitMessage built for a result that is not ok is never raised.
EnableTablescans(p) ==
  /\ pc[p] = "enable_ts"
  /\ was' = [was EXCEPT ![p] = notablescan]
  /\ notablescan' = 0
  /\ Goto(p, "gate", NoExc)
  /\ UNCHANGED << alone, files, disk, migrations, indexes, evals, history, disable_backup,
                  filenames_left, migrations_to_execute, pos, outcome, trace >>

\* check_for_failed_scripts building the ExitMessage without raising it
CheckForFailedScriptsNoRaise(p) ==
  /\ pc[p] = "gate"
  /\ Goto(p, "discover", NoExc)
  /\ Log(p, Ev("gate", NoFile, "", "clean", NoMessage))
  /\ UNCHANGED << alone, shared, history, disable_backup, was, filenames_left,
                  migrations_to_execute, pos, outcome >>

\* check_for_failed_scripts
CheckForFailedScripts(p) ==
  /\ pc[p] = "gate"
  /\ IF FindFailed(migrations) # {}
       THEN Goto(p, "restore_ts", ExitMessage(1))
            /\ Log(p, Ev("gate", NoFile, "", "failed", NoMessage))
       ELSE Goto(p, "discover", NoExc)
            /\ Log(p, Ev("gate", NoFile, "", "clean", NoMessage))
  /\ UNCHANGED << alone, shared, history, disable_backup, was, filenames_left,
                  migrations_to_execute, pos, outcome >>

\* get_migrations_to_execute without the test of check_consecutive
DiscoverWithoutCheck(p) ==
  /\ pc[p] = "discover"
  /\ \E filenames \in Glob(files) :
       IF filenames = << >>
         THEN /\ Goto(p, "restore_ts", ExitMessage(1))
              /\ Log(p, Ev("glob", NoFile, "", "invalid", NoMessage))
              /\ UNCHANGED filenames_left
         ELSE /\ Goto(p, "load", NoExc)
              /\ Log(p, Ev("glob", NoFile, "", "valid", NoMessage))
              /\ filenames_left' = [filenames_left EXCEPT ![p] = Sorted(filenames)]
  /\ UNCHANGED << alone, shared, history, disable_backup, was, migrations_to_execute, pos, outcome >>

\* get_migrations_to_execute up to the loop
Discover(p) ==
  /\ pc[p] = "discover"
  /\ \E filenames \in Glob(files) :
       IF filenames = << >> \/ ~CheckConsecutive(filenames)
         THEN /\ Goto(p, "restore_ts", ExitMessage(1))
              /\ Log(p, Ev("glob", NoFile, "", "invalid", NoMessage))
              /\ UNCHANGED filenames_left
         ELSE /\ Goto(p, "load", NoExc)
              /\ Log(p, Ev("glob", NoFile, "", "valid", NoMessage))
              /\ filenames_left' = [filenames_left EXCEPT ![p] = Sorted(filenames)]
  /\ UNCHANGED << alone, shared, history, disable_backup, was, migrations_to_execute, pos, outcome >>

\* Migration.load_migration: find_one names no order, so it can return any
\* of the documents with that filename
LoadMigration(filename) ==
  LET found == FindFilename(migrations, filename)
  IN IF found = {}
       THEN { Migration(filename, NoneDoc, disk[filename]) }
       ELSE { Migration(filename, migrations[i], disk[filename]) : i \in found }

\* get_migrations_to_execute without the continue: the migrations already
\* applied are appended too
LoadNextWithoutContinue(p) ==
  /\ pc[p] = "load"
  /\ \E migration \in LoadMigration(Head(filenames_left[p])) :
       LET rest == Tail(filenames_left[p])
           list == Append(migrations_to_execute[p], migration)
       IN IF InconsistentHashcode(migration)
            THEN /\ Goto(p, "restore_ts", ExitMessage(1))
                 /\ Log(p, Ev("load", migration.filename, migration.script_content,
                              "inconsistent", NoMessage))
                 /\ UNCHANGED << filenames_left, migrations_to_execute >>
            ELSE /\ filenames_left' = [filenames_left EXCEPT ![p] = rest]
                 /\ migrations_to_execute' = [migrations_to_execute EXCEPT ![p] = list]
                 /\ Log(p, Ev("load", migration.filename, migration.script_content,
                              IF WasAlreadyApplied(migration) THEN "applied" ELSE "pending",
                              NoMessage))
                 /\ Goto(p, IF rest # << >> THEN "load"
                            ELSE IF list # << >> THEN "apply" ELSE "restore_ts", NoExc)
  /\ UNCHANGED << alone, shared, history, disable_backup, was, pos, outcome >>

\* get_migrations_to_execute, one round of the loop
LoadNext(p) ==
  /\ pc[p] = "load"
  /\ \E migration \in LoadMigration(Head(filenames_left[p])) :
       LET rest == Tail(filenames_left[p])
           list == IF WasAlreadyApplied(migration)
                     THEN migrations_to_execute[p]
                     ELSE Append(migrations_to_execute[p], migration)
       IN IF InconsistentHashcode(migration)
            THEN /\ Goto(p, "restore_ts", ExitMessage(1))
                 /\ Log(p, Ev("load", migration.filename, migration.script_content,
                              "inconsistent", NoMessage))
                 /\ UNCHANGED << filenames_left, migrations_to_execute >>
            ELSE /\ filenames_left' = [filenames_left EXCEPT ![p] = rest]
                 /\ migrations_to_execute' = [migrations_to_execute EXCEPT ![p] = list]
                 /\ Log(p, Ev("load", migration.filename, migration.script_content,
                              IF WasAlreadyApplied(migration) THEN "applied" ELSE "pending",
                              NoMessage))
                 /\ Goto(p, IF rest # << >> THEN "load"
                            ELSE IF list # << >> THEN "apply" ELSE "restore_ts", NoExc)
  /\ UNCHANGED << alone, shared, history, disable_backup, was, pos, outcome >>

\* process_migrations without its else branch: a migration that succeeds is
\* not recorded
ApplyToMongoWithoutElse(p) ==
  /\ pc[p] = "apply"
  /\ LET migration == migrations_to_execute[p][pos[p]] IN
     /\ evals' = [evals EXCEPT ![migration.filename] = @ + 1]
     /\ \E o \in EvalOutcomes :
          /\ Log(p, Ev("eval", migration.filename, migration.script_content, o, NoMessage))
          /\ CASE o = "ok" ->
                    /\ UNCHANGED outcome
                    /\ pos' = [pos EXCEPT ![p] = @ + 1]
                    /\ Goto(p, IF pos[p] < Len(migrations_to_execute[p]) THEN "apply"
                               ELSE "restore_ts", NoExc)
               [] o = "error" ->
                    /\ outcome' = [outcome EXCEPT ![p] =
                         [status |-> MIGRATION_STATUS_FAILED, error_message |-> JsError]]
                    /\ UNCHANGED pos
                    /\ Goto(p, "save", NoExc)
               [] o = "opfail" ->
                    /\ outcome' = [outcome EXCEPT ![p] =
                         [status |-> MIGRATION_STATUS_FAILED,
                          error_message |-> RemoveScriptFromExceptionMessage(DriverMessage)]]
                    /\ UNCHANGED pos
                    /\ Goto(p, "save", NoExc)
               [] OTHER ->
                    /\ UNCHANGED << outcome, pos >>
                    /\ Goto(p, "restore_ts", Uncaught)
  /\ UNCHANGED << alone, files, disk, migrations, indexes, notablescan, history, disable_backup,
                  was, filenames_left, migrations_to_execute >>

\* Migration.apply_to_mongo, called by process_migrations
ApplyToMongo(p) ==
  /\ pc[p] = "apply"
  /\ LET migration == migrations_to_execute[p][pos[p]] IN
     /\ evals' = [evals EXCEPT ![migration.filename] = @ + 1]
     /\ \E o \in EvalOutcomes :
          /\ Log(p, Ev("eval", migration.filename, migration.script_content, o, NoMessage))
          /\ CASE o = "ok" ->
                    /\ outcome' = [outcome EXCEPT ![p] =
                         [status |-> MIGRATION_STATUS_OK, error_message |-> NoMessage]]
                    /\ Goto(p, "save", NoExc)
               [] o = "error" ->
                    /\ outcome' = [outcome EXCEPT ![p] =
                         [status |-> MIGRATION_STATUS_FAILED, error_message |-> JsError]]
                    /\ Goto(p, "save", NoExc)
               [] o = "opfail" ->
                    /\ outcome' = [outcome EXCEPT ![p] =
                         [status |-> MIGRATION_STATUS_FAILED,
                          error_message |-> RemoveScriptFromExceptionMessage(DriverMessage)]]
                    /\ Goto(p, "save", NoExc)
               [] OTHER ->
                    /\ UNCHANGED outcome
                    /\ Goto(p, "restore_ts", Uncaught)
  /\ UNCHANGED << alone, files, disk, migrations, indexes, notablescan, history, disable_backup,
                  was, filenames_left, migrations_to_execute, pos >>

\* process_migrations going on with the next migration after a failure
SaveMigrationStateAndGoOn(p) ==
  /\ pc[p] = "save"
  /\ LET migration == migrations_to_execute[p][pos[p]]
         status == outcome[p].status
         error_message == outcome[p].error_message
     IN
     /\ migrations' = Append(migrations,
          Doc(FALSE, migration.filename, error_message, status, Sha1(migration.script_content)))
     /\ Log(p, Ev("insert", migration.filename, migration.script_content, status, error_message))
     /\ pos' = [pos EXCEPT ![p] = @ + 1]
     /\ Goto(p, IF pos[p] < Len(migrations_to_execute[p]) THEN "apply" ELSE "restore_ts",
             IF status = MIGRATION_STATUS_FAILED /\ pos[p] >= Len(migrations_to_execute[p])
               THEN ExitMessage(1) ELSE NoExc)
  /\ UNCHANGED << alone, files, disk, indexes, notablescan, evals, history, disable_backup,
                  was, filenames_left, migrations_to_execute, outcome >>

\* Migration.save_migration_state, called by process_migrations
SaveMigrationState(p) ==
  /\ pc[p] = "save"
  /\ LET migration == migrations_to_execute[p][pos[p]]
         status == outcome[p].status
         error_message == outcome[p].error_message
     IN
     /\ migrations' = Append(migrations,
          Doc(FALSE, migration.filename, error_message, status, Sha1(migration.script_content)))
     /\ Log(p, Ev("insert", migration.filename, migration.script_content, status, error_message))
     /\ IF status = MIGRATION_STATUS_FAILED
          THEN Goto(p, "restore_ts", ExitMessage(1)) /\ UNCHANGED pos
          ELSE /\ pos' = [pos EXCEPT ![p] = @ + 1]
               /\ Goto(p, IF pos[p] < Len(migrations_to_execute[p]) THEN "apply"
                          ELSE "restore_ts", NoExc)
  /\ UNCHANGED << alone, files, disk, indexes, notablescan, evals, history, disable_backup,
                  was, filenames_left, migrations_to_execute, outcome >>

\* enable_tablescans, the finally block
RestoreTablescans(p) ==
  /\ pc[p] = "restore_ts"
  /\ notablescan' = was[p]
  /\ Goto(p, "release", exc[p])
  /\ UNCHANGED << alone, files, disk, migrations, indexes, evals, history, disable_backup,
                  was, filenames_left, migrations_to_execute, pos, outcome, trace >>

\* migration_lock removing the lock after the yield, without try and finally
ReleaseLockWithoutFinally(p) ==
  /\ pc[p] = "release"
  /\ migrations' = IF exc[p] = NoExc THEN SelectSeq(migrations, LAMBDA d : ~IsLock(d))
                   ELSE migrations
  /\ Exit(p, exc[p])
  /\ Log(p, Ev("unlock", NoFile, "", "", NoMessage))
  /\ full_success' = (full_success \/ exc[p] = NoExc)
  /\ UNCHANGED << alone, files, disk, indexes, notablescan, evals, runs, edits, overlapped,
                  after_success, disable_backup, was, filenames_left,
                  migrations_to_execute, pos, outcome >>

\* migration_lock removing with a query that every document matches
ReleaseLockRemovingAll(p) ==
  /\ pc[p] = "release"
  /\ migrations' = << >>
  /\ Exit(p, exc[p])
  /\ Log(p, Ev("unlock", NoFile, "", "", NoMessage))
  /\ full_success' = (full_success \/ exc[p] = NoExc)
  /\ UNCHANGED << alone, files, disk, indexes, notablescan, evals, runs, edits, overlapped,
                  after_success, disable_backup, was, filenames_left,
                  migrations_to_execute, pos, outcome >>

\* migration_lock, the finally block, and the end of main
ReleaseLock(p) ==
  /\ pc[p] = "release"
  /\ migrations' = SelectSeq(migrations, LAMBDA d : ~IsLock(d))
  /\ Exit(p, exc[p])
  /\ Log(p, Ev("unlock", NoFile, "", "", NoMessage))
  /\ full_success' = (full_success \/ exc[p] = NoExc)
  /\ UNCHANGED << alone, files, disk, indexes, notablescan, evals, runs, edits, overlapped,
                  after_success, disable_backup, was, filenames_left,
                  migrations_to_execute, pos, outcome >>

\* the operator edits a script file, between two runs
Edit(f, c) ==
  /\ edits < MaxEdits
  /\ \A p \in Procs : ~Running(p)
  /\ c # disk[f]
  /\ disk' = [disk EXCEPT ![f] = c]
  /\ edits' = edits + 1
  /\ full_success' = FALSE
  /\ after_success' = [p \in Procs |-> FALSE]
  /\ UNCHANGED << alone, files, migrations, indexes, notablescan, evals, pc, disable_backup, was,
                  filenames_left, migrations_to_execute, pos, outcome, exc, exit_status,
                  trace, runs, overlapped >>

Next ==
  \/ \E p \in Procs : Start(p)
  \/ \E p \in Procs : BackupDatabase(p)
  \/ \E p \in Procs : InitMigrationsCollection(p)
  \/ \E p \in Procs : CheckLock(p)
  \/ \E p \in Procs : InsertLock(p)
  \/ \E p \in Procs : EnableTablescans(p)
  \/ \E p \in Procs : CheckForFailedScripts(p)
  \/ \E p \in Procs : Discover(p)
  \/ \E p \in Procs : LoadNext(p)
  \/ \E p \in Procs : ApplyToMongo(p)
  \/ \E p \in Procs : SaveMigrationState(p)
  \/ \E p \in Procs : RestoreTablescans(p)
  \/ \E p \in Procs : ReleaseLock(p)
  \/ \E f \in files, c \in Contents : Edit(f, c)

Spec == Init /\ [][Next]_vars

\* ------------------------------------------------ functions on their own
\* check_consecutive, Migration.was_already_applied,
\* Migration.inconsistent_hashcode and Migration.load_migration called on
\* their own, as the tests call them, with arguments drawn from small sets.

\* the filenames of the lists check_consecutive is called with
FilenamePool == { File(n, 10) : n \in 0..MaxNumber } \cup { File(0, 11) }
FilenameLists == UNION { [1..n -> FilenamePool] : n \in 0..MaxLen }

\* the documents a Migration is built with: none, or a record of the file
\* with either status and the hash of either content or a foreign hash
Documents ==
  { NoneDoc } \cup
  { Doc(FALSE, File(0, 10), IF st = MIGRATION_STATUS_FAILED THEN JsError ELSE NoMessage, st, h) :
      st \in {MIGRATION_STATUS_OK, MIGRATION_STATUS_FAILED},
      h \in { Sha1(c) : c \in Contents } \cup { "0x22" } }
MigrationArgs == { Migration(File(0, 10), d, c) : d \in Documents, c \in Contents }

\* the collections load_migration is called on: lock documents, records of
\* the file in either status, a record of another file
StoredPool ==
  { LockDoc,
    Doc(FALSE, File(0, 10), NoMessage, MIGRATION_STATUS_OK, Sha1("content1")),
    Doc(FALSE, File(0, 10), JsError, MIGRATION_STATUS_FAILED, Sha1("content1")),
    Doc(FALSE, File(1, 11), NoMessage, MIGRATION_STATUS_OK, Sha1("content2")) }
Collections == UNION { [1..n -> StoredPool] : n \in 0..MaxLen }

AloneInit ==
  /\ InitInstances
  /\ indexes = {}
  /\ notablescan = 1
  /\ ret = NoRet
  /\ \/ /\ files = {}
        /\ disk = [f \in files |-> InitialContent(f)]
        /\ evals = [f \in files |-> 0]
        /\ migrations = << >>
        /\ \E l \in FilenameLists : call = [NoCall EXCEPT !.fn = "check_consecutive",
                                                          !.filenames = l]
     \/ /\ files = {}
        /\ disk = [f \in files |-> InitialContent(f)]
        /\ evals = [f \in files |-> 0]
        /\ migrations = << >>
        /\ \E m \in MigrationArgs : call = [NoCall EXCEPT !.fn = "migration",
                                                          !.migration = m]
     \/ /\ files = { File(0, 10) }
        /\ disk = [f \in files |-> InitialContent(f)]
        /\ evals = [f \in files |-> 0]
        /\ migrations \in Collections
        /\ call = [NoCall EXCEPT !.fn = "load_migration", !.filenames = << File(0, 10) >>]

instances == << pc, disable_backup, was, filenames_left, migrations_to_execute, pos,
               outcome, exc, exit_status, trace >>

\* check_consecutive(filenames)
CallCheckConsecutive ==
  /\ call.fn = "check_consecutive" /\ ~ret.returned
  /\ ret' = [NoRet EXCEPT !.returned = TRUE, !.value = CheckConsecutive(call.filenames)]
  /\ UNCHANGED << shared, history, instances, call >>

\* migration.was_already_applied() and migration.inconsistent_hashcode()
CallMigrationTests ==
  /\ call.fn = "migration" /\ ~ret.returned
  /\ ret' = [NoRet EXCEPT !.returned = TRUE,
                          !.applied = WasAlreadyApplied(call.migration),
                          !.inconsistent = InconsistentHashcode(call.migration),
                          !.migration = call.migration]
  /\ UNCHANGED << shared, history, instances, call >>

\* Migration.load_migration(filename), and the two tests on what it returns
CallLoadMigration ==
  /\ call.fn = "load_migration" /\ ~ret.returned
  /\ \E m \in LoadMigration(call.filenames[1]) :
       ret' = [NoRet EXCEPT !.returned = TRUE,
                            !.applied = WasAlreadyApplied(m),
                            !.inconsistent = InconsistentHashcode(m),
                            !.migration = m]
  /\ UNCHANGED << shared, history, instances, call >>

AloneNext == CallCheckConsecutive \/ CallMigrationTests \/ CallLoadMigration

AloneSpec == AloneInit /\ [][AloneNext]_vars

\* ------------------------------------------------------------- the claims
Did(p, op) == \E k \in 1..Len(trace[p]) : trace[p][k].op = op
Events(p, ops) == SelectSeq(trace[p], LAMBDA e : e.op \in ops)
Locks == FindLock(migrations)
FailedRecords == FindFailed(migrations)
Stored(d) == \E i \in 1..Len(migrations) : migrations[i] = d

\* the message the FAILED record of a failed eval must carry: the message
\* eval returned, or the driver's message without its command echo
FailedMessage(e) ==
  IF e.result = "error" THEN << "js error" >> ELSE << "invoke failed: JS Error" >>

\* C1: when applying a pending migration fails (eval returns an error
\* message or raises OperationFailure), the next thing the run does is to
\* append a FAILED record with the message for that migration, while no
\* exception is on its way to main and before the lock is released; after it
\* the run only unwinds with ExitMessage(1): it applies and records nothing
\* more, and it has written no FAILED record for another script.
FailedApplyIsRecordedThenAborts ==
  \A p \in Procs : \A k \in 1..Len(trace[p]) :
    LET e == trace[p][k]
        n == Len(trace[p])
    IN (e.op = "eval" /\ e.result \in {"error", "opfail"}) =>
         /\ k = n => (pc[p] = "save" /\ exc[p] = NoExc)
         /\ k < n =>
              /\ trace[p][k+1] = Ev("insert", e.filename, e.content,
                                    MIGRATION_STATUS_FAILED, FailedMessage(e))
              /\ Stored(Doc(FALSE, e.filename, FailedMessage(e),
                            MIGRATION_STATUS_FAILED, Sha1(e.content)))
              /\ exc[p] = ExitMessage(1)
              /\ pc[p] \in {"restore_ts", "release", "done"}
              /\ \A j \in (k+2)..n : trace[p][j].op = "unlock"
              /\ pos[p] \in 1..Len(migrations_to_execute[p])
              /\ migrations_to_execute[p][pos[p]].filename = e.filename
         /\ \A j \in 1..k : trace[p][j].op # "unlock"
         /\ \A j \in 1..n :
              (trace[p][j].op = "insert" /\ trace[p][j].result = MIGRATION_STATUS_FAILED)
                => trace[p][j].filename = e.filename

\* C1 happens: a run has ended on the failure of a migration that was not
\* the last of the pending list
FailedApplyWitness ==
  \E p \in Procs :
    /\ pc[p] = "done"
    /\ pos[p] < Len(migrations_to_execute[p])
    /\ \E k \in 1..Len(trace[p]) :
         trace[p][k].op = "eval" /\ trace[p][k].result \in {"error", "opfail"}

\* the run called process_migrations and every apply succeeded
AllAppliesSucceeded(p) ==
  /\ pc[p] = "done"
  /\ Did(p, "load")
  /\ filenames_left[p] = << >>
  /\ \A k \in 1..Len(trace[p]) :
       /\ trace[p][k].op = "load" => trace[p][k].result # "inconsistent"
       /\ trace[p][k].op = "eval" => trace[p][k].result = "ok"

\* C2: when all applies of a pending list succeed, the run has called eval
\* once per migration with the migration's content, in list order, which is
\* the ascending order of the numbers, and after each eval, before the next
\* one, it has appended one OK record for that migration.
SuccessfulRunAppliesAndRecordsInOrder ==
  \A p \in Procs : AllAppliesSucceeded(p) =>
    LET list == migrations_to_execute[p]
        evs == Events(p, {"eval", "insert"})
    IN /\ Len(evs) = 2 * Len(list)
       /\ \A i \in 1..Len(list) :
            /\ evs[2*i - 1] = Ev("eval", list[i].filename, list[i].script_content,
                                 "ok", NoMessage)
            /\ evs[2*i] = Ev("insert", list[i].filename, list[i].script_content,
                             MIGRATION_STATUS_OK, NoMessage)
            /\ Stored(Doc(FALSE, list[i].filename, NoMessage, MIGRATION_STATUS_OK,
                          Sha1(list[i].script_content)))
       /\ \A i, j \in 1..Len(list) :
            i < j => ExtractFilenumber(list[i].filename) < ExtractFilenumber(list[j].filename)
       /\ exc[p] = NoExc

\* C2 happens: a run has applied two pending migrations of different content
SuccessfulRunWitness ==
  \E p \in Procs :
    /\ AllAppliesSucceeded(p)
    /\ Len(migrations_to_execute[p]) = 2
    /\ migrations_to_execute[p][1].script_content # migrations_to_execute[p][2].script_content

\* C3: a run that has inserted the lock record ends, on whatever path, by a
\* step after which no lock record is in the store.
LockAbsentWhenLockedRunEnds ==
  [][\A p \in Procs :
       (Did(p, "lock") /\ pc[p] # "done" /\ pc'[p] = "done")
         => FindLock(migrations') = {}]_vars

\* C3 happens: a run that held the lock has ended on an exception that is
\* no ExitMessage, and no lock record is left
LockAbsentWitness ==
  \E p \in Procs :
    /\ pc[p] = "done" /\ Did(p, "lock") /\ exc[p] = Uncaught
    /\ Locks = {}

\* C4: at most one lock record exists.
AtMostOneLockRecord == Cardinality(Locks) <= 1

\* C5: an instance that tests the lock while a lock record exists ends at
\* once with exit code 1, and its run has changed nothing: the store is as it
\* was, the lock included, and the run has read no migration record,
\* appended none and applied no script.
LockedOutInstanceLeavesStoreUnchanged ==
  [][\A p \in Procs :
       (pc[p] = "check_lock" /\ pc'[p] # "check_lock" /\ Locks # {}) =>
         /\ pc'[p] = "done"
         /\ exc'[p] = ExitMessage(1)
         /\ exit_status'[p] = 1
         /\ migrations' = migrations
         /\ evals' = evals
         /\ \A k \in 1..Len(trace'[p]) :
              trace'[p][k].op \notin {"lock", "unlock", "gate", "load", "eval", "insert"}]_vars

\* C5 happens: an instance has been locked out and the lock is still there
LockedOutWitness ==
  \E p \in Procs :
    /\ pc[p] = "done" /\ Did(p, "already_locked") /\ exit_status[p] = 1
    /\ Locks # {}

\* the run of p was stopped by the gate
Gated(p) == \E k \in 1..Len(trace[p]) : trace[p][k].op = "gate" /\ trace[p][k].result = "failed"

\* C6: a run that reaches the gate check while the store holds a FAILED
\* record aborts there with ExitMessage(1): it lists and loads no script,
\* applies none, appends no record, releases the lock and ends with exit
\* status 1.  And while the store holds a FAILED record and no two runs have
\* overlapped, no step applies a script.
FailedRecordGatesTheRun ==
  /\ [][\A p \in Procs :
          /\ (pc[p] = "gate" /\ pc'[p] # "gate" /\ FailedRecords # {})
               => (pc'[p] = "restore_ts" /\ exc'[p] = ExitMessage(1) /\ Gated(p)')
          /\ (Gated(p) /\ pc[p] # "done" /\ pc'[p] = "done")
               => FindLock(migrations') = {}]_vars
  /\ [](\A p \in Procs : Gated(p) =>
          /\ pc[p] \in {"restore_ts", "release", "done"}
          /\ exc[p] = ExitMessage(1)
          /\ ~Did(p, "glob") /\ ~Did(p, "load") /\ ~Did(p, "eval") /\ ~Did(p, "insert")
          /\ pc[p] = "done" => (exit_status[p] = 1 /\ Did(p, "unlock")))
  /\ [][(FailedRecords # {} /\ ~overlapped') => evals' = evals]_vars

\* C6 happens: a run has been stopped by the gate and has ended
GatedRunWitness ==
  \E p \in Procs : Gated(p) /\ pc[p] = "done" /\ ~overlapped

\* C7: with no two runs overlapping, a run that starts after a run has
\* completed successfully, the scripts not edited since, and that gets past
\* its backup step, applies no script, appends no record, finds nothing to
\* execute and ends with exit status 0 and no lock record in the store.
RerunAfterSuccessChangesNothing ==
  \A p \in Procs :
    (after_success[p] /\ ~overlapped /\ Did(p, "create_index")) =>
       /\ ~Did(p, "eval") /\ ~Did(p, "insert") /\ ~Did(p, "already_locked")
       /\ migrations_to_execute[p] = << >>
       /\ exc[p] = NoExc
       /\ pc[p] = "done" =>
            /\ exit_status[p] = 0
            /\ Did(p, "glob") /\ Did(p, "unlock")
            /\ Locks = {}
            /\ \A f \in files :
                 \E i \in 1..Len(migrations) :
                   /\ FindFilename(migrations, f) = {i}
                   /\ migrations[i].status = MIGRATION_STATUS_OK
                   /\ migrations[i].sha_hash = Sha1(disk[f])

\* C7 happens: the second run over two scripts has ended
RerunWitness ==
  \E p \in Procs :
    /\ after_success[p] /\ ~overlapped /\ pc[p] = "done" /\ Did(p, "glob")
    /\ Cardinality(files) = 2

\* C8: each script is passed to db.eval at most once, over all instances
\* and runs.
EachScriptEvaluatedAtMostOnce == \A f \in files : evals[f] <= 1

\* the backup of the run of p failed
BackupFailed(p) ==
  \E k \in 1..Len(trace[p]) :
    trace[p][k].op = "backup" /\ trace[p][k].result \in {"makedirs failed", "mongodump failed"}

\* C9: a run whose backup fails ends there: it creates no index, inserts no
\* lock record, does not query the gate, applies no script and appends no
\* record, and the step that ends it leaves the database as it was.  A run
\* with the disable-backup flag never calls the backup.
FailedBackupAbortsBeforeLock ==
  /\ [](\A p \in Procs :
          /\ BackupFailed(p) =>
               (pc[p] = "done" /\ Len(trace[p]) = 1 /\ exc[p].kind = "ExitMessage")
          /\ disable_backup[p] => (pc[p] # "backup" /\ ~Did(p, "backup")))
  /\ [][\A p \in Procs :
          (pc[p] = "backup" /\ BackupFailed(p)') =>
             (migrations' = migrations /\ indexes' = indexes /\ evals' = evals)]_vars

\* C9 happens: a run has ended on the failure of mongodump, and another run
\* has skipped the backup
FailedBackupWitness ==
  /\ \E p \in Procs :
       pc[p] = "done" /\ trace[p] = << Ev("backup", NoFile, "", "mongodump failed", NoMessage) >>
  /\ \E p \in Procs : disable_backup[p] /\ Did(p, "lock")

\* C10: the exit status of a run is 0 when it succeeded and is not 0 when
\* it ended on a fatal error.
ExitStatusTellsSuccessFromFailure ==
  \A p \in Procs : pc[p] = "done" =>
    /\ exc[p] = NoExc => exit_status[p] = 0
    /\ exc[p] # NoExc => exit_status[p] # 0

\* the numeric prefixes of the filenames are 0, 1, ..., N-1, each once
\* (N numbers that cover N values), in whatever order the list has them
PrefixesAreZeroToN(filenames) ==
  \A n \in 0..(Len(filenames) - 1) :
    \E i \in 1..Len(filenames) : ExtractFilenumber(filenames[i]) = n

\* C11: for every list of filenames, in any order, check_consecutive
\* returns true exactly when the sorted numeric prefixes are 0, 1, ..., N-1
\* for the N filenames of the list: false for a gap, a duplicate prefix and
\* a list that does not start at 0.
CheckConsecutiveIsExact ==
  (call.fn = "check_consecutive" /\ ret.returned) =>
    (ret.value <=> PrefixesAreZeroToN(call.filenames))

\* C11 happens: check_consecutive has returned true for three filenames
\* given out of order, as in the test
CheckConsecutiveWitness ==
  /\ call.fn = "check_consecutive" /\ ret.returned /\ ret.value
  /\ call.filenames = << File(1, 10), File(0, 10), File(2, 10) >>

\* C14: inconsistent_hashcode() is true exactly when a record is bound and
\* its hash differs from the hash of the script content, whatever the
\* record's status; was_already_applied() is true exactly when a record is
\* bound and its status is OK; without a record both are false.
MigrationTestsAreExact ==
  (call.fn = "migration" /\ ret.returned) =>
    LET document == call.migration.document
        bound == document # NoneDoc
    IN /\ ret.inconsistent <=>
            (bound /\ document.sha_hash # Sha1(call.migration.script_content))
       /\ ret.applied <=> (bound /\ document.status = MIGRATION_STATUS_OK)
       /\ ~bound => (~ret.inconsistent /\ ~ret.applied)

\* C14 happens: a migration bound to a FAILED record with another hash has
\* been found inconsistent and not applied
MigrationTestsWitness ==
  /\ call.fn = "migration" /\ ret.returned
  /\ call.migration.document # NoneDoc
  /\ call.migration.document.status = MIGRATION_STATUS_FAILED
  /\ call.migration.document.sha_hash = "0x22"
  /\ ret.inconsistent /\ ~ret.applied

\* C17: when the collection holds several records of a filename,
\* load_migration binds the one appended last.
LoadMigrationBindsLatestRecord ==
  (call.fn = "load_migration" /\ ret.returned) =>
    LET found == FindFilename(migrations, call.filenames[1])
    IN found # {} =>
         ret.migration.document = migrations[CHOOSE i \in found : \A j \in found : j <= i]

\* the set is valid: not empty, and its N numeric prefixes cover 0..N-1
ValidSet(S) ==
  S # {} /\ \A n \in 0..(Cardinality(S) - 1) : \E f \in S : ExtractFilenumber(f) = n

\* the migration records of a collection, in the order of their insertion
NonLock(coll) == SelectSeq(coll, LAMBDA d : ~IsLock(d))

\* C12: get_migrations_to_execute raises ExitMessage(1) when no file is
\* found or the prefixes are not consecutive from 0, before it loads a
\* script or reads a record; the run then only unwinds: nothing is applied,
\* no record is appended, the lock is released and the exit status is 1.
InvalidSetAbortsBeforeLoading ==
  /\ ~ValidSet(files) => ((\A f \in files : evals[f] = 0) /\ NonLock(migrations) = << >>)
  /\ \A p \in Procs : \A k \in 1..Len(trace[p]) :
       trace[p][k].op = "glob" =>
         /\ trace[p][k].result = (IF ValidSet(files) THEN "valid" ELSE "invalid")
         /\ trace[p][k].result = "invalid" =>
              /\ \A j \in 1..Len(trace[p]) : trace[p][j].op \notin {"load", "eval", "insert"}
              /\ \A j \in (k+1)..Len(trace[p]) : trace[p][j].op = "unlock"
              /\ filenames_left[p] = << >> /\ migrations_to_execute[p] = << >>
              /\ exc[p] = ExitMessage(1)
              /\ pc[p] \in {"restore_ts", "release", "done"}
              /\ pc[p] = "done" =>
                   /\ exit_status[p] = 1
                   /\ trace[p][Len(trace[p])].op = "unlock"
                   /\ (\A q \in Procs : ~Running(q)) => Locks = {}

\* C12 happens: a run in a directory whose scripts are not numbered from 0
\* without a gap has ended
InvalidSetWitness ==
  \E p \in Procs :
    /\ pc[p] = "done" /\ files # {}
    /\ \E k \in 1..Len(trace[p]) : trace[p][k].op = "glob" /\ trace[p][k].result = "invalid"

ListNames(list) == { list[i].filename : i \in 1..Len(list) }
HasOkRecord(f) ==
  \E i \in FindFilename(migrations, f) : migrations[i].status = MIGRATION_STATUS_OK

\* get_migrations_to_execute has returned its list to process, and the run
\* goes on
Returned(p) ==
  /\ Running(p)
  /\ \E k \in 1..Len(trace[p]) : trace[p][k].op = "glob" /\ trace[p][k].result = "valid"
  /\ filenames_left[p] = << >>
  /\ \A k \in 1..Len(trace[p]) : trace[p][k].op = "load" => trace[p][k].result # "inconsistent"

\* C13: for a valid set without an inconsistent hash,
\* get_migrations_to_execute returns the migrations that are not already
\* applied (bound to no record, or to a record whose status is not OK),
\* each once, in ascending order of the numbers, and leaves out every
\* migration with an OK record.
PendingMigrationsAreReturnedInOrder ==
  \A p \in Procs : Returned(p) =>
    LET list == migrations_to_execute[p] IN
    /\ \A i, j \in 1..Len(list) :
         i < j => ExtractFilenumber(list[i].filename) < ExtractFilenumber(list[j].filename)
    /\ \A i \in 1..Len(list) :
         LET m == list[i] IN
         /\ m.filename \in files
         /\ m.script_content = disk[m.filename]
         /\ \/ m.document = NoneDoc
            \/ /\ Stored(m.document)
               /\ m.document.filename = m.filename
               /\ m.document.status # MIGRATION_STATUS_OK
    /\ \A f \in files \ ListNames(list) : HasOkRecord(f)
    /\ (~overlapped /\ ~Did(p, "eval")) =>
         \A f \in files : (f \in ListNames(list)) <=> ~HasOkRecord(f)

\* C13 happens: of two scripts the first is already applied, and the list
\* returned holds the second only
PendingMigrationsWitness ==
  \E p \in Procs :
    /\ Returned(p) /\ pc[p] = "apply" /\ ~overlapped
    /\ files = { File(0, 10), File(1, 11) }
    /\ ListNames(migrations_to_execute[p]) = { File(1, 11) }
    /\ HasOkRecord(File(0, 10))

IsPrefix(a, b) == Len(a) <= Len(b) /\ SubSeq(b, 1, Len(a)) = a

\* C15: no step deletes or changes a migration record: the records before
\* the step are the first records after it; the step that records an
\* outcome adds one record, and the release of the lock removes the lock
\* documents and nothing else.
HistoryIsAppendOnly ==
  [][/\ IsPrefix(NonLock(migrations), NonLock(migrations'))
     /\ (\E p \in Procs : pc[p] = "save" /\ pc'[p] # "save") =>
          Len(NonLock(migrations')) = Len(NonLock(migrations)) + 1
     /\ (\E p \in Procs : pc[p] = "release" /\ pc'[p] = "done") =>
          (NonLock(migrations') = NonLock(migrations) /\ FindLock(migrations') = {})]_vars

\* C15 happens: a run that recorded an outcome has released its lock, and
\* the record is in the collection
HistoryWitness ==
  \E p \in Procs :
    /\ pc[p] = "done" /\ Did(p, "unlock")
    /\ \E k \in 1..Len(trace[p]) :
         LET e == trace[p][k] IN
         e.op = "insert" /\ Stored(Doc(FALSE, e.filename, e.msg, e.result, Sha1(e.content)))

Count(p, op, f) == Len(SelectSeq(trace[p], LAMBDA e : e.op = op /\ e.filename = f))

\* C16: when a run has ended, it has appended one record for every call of
\* apply_to_mongo it made, whatever the outcome of the call.
EveryApplyIsRecordedOnce ==
  \A p \in Procs : pc[p] = "done" =>
    \A f \in files : Count(p, "insert", f) = Count(p, "eval", f)

\* some script has a record whose hash is not the hash of its content
MismatchExists ==
  \E i \in 1..Len(migrations) :
    /\ ~IsLock(migrations[i])
    /\ migrations[i].filename \in files
    /\ migrations[i].sha_hash # Sha1(disk[migrations[i].filename])

LockPresentInsideLockedRegion ==
  \A p \in Procs : pc[p] \in {"gate", "apply", "save"} => Locks # {}

OkNumbers == { ExtractFilenumber(f) : f \in { g \in files : HasOkRecord(g) } }
FailedNumbers ==
  { ExtractFilenumber(f) :
      f \in { g \in files : \E i \in FindFilename(migrations, g) :
                               migrations[i].status = MIGRATION_STATUS_FAILED } }

\* C20: while the runs on a valid set follow one another, the scripts with
\* an OK record are the scripts 0..k-1 for some k, and a FAILED record
\* exists for no script but script k.
OkRecordsFormAPrefix ==
  (~overlapped /\ ValidSet(files)) =>
    \E k \in 0..Cardinality(files) :
      OkNumbers = 0..(k-1) /\ FailedNumbers \subseteq {k}

\* C20 happens: in runs that followed one another the first script got an
\* OK record and the second a FAILED one
OkPrefixWitness ==
  /\ ~overlapped
  /\ files = { File(0, 10), File(1, 11) }
  /\ OkNumbers = {0} /\ FailedNumbers = {1}

====
